---- MODULE Spec2Model ----
(***************************************************************************)
(* wolf-agent (cmd/wolf-agent/main.go): a TLS reverse proxy in front of    *)
(* wolf.sock.  One monitor goroutine polls the socket path and stores      *)
(* ready=true once; the HTTP server runs one handler goroutine per         *)
(* request.  Handlers are modelled step by step at their blocking points   *)
(* (atomic load, backend call, body read, client write, flush) so that     *)
(* every interleaving with the monitor and with each other is explored.    *)
(***************************************************************************)
EXTENDS Integers, Sequences, FiniteSets, TLC

\* ---- bounds of the model ----
NumReq == 1          \* /api/v1/ requests in flight at once (besides the health probes)
MaxChunks == 2       \* non-empty reads one backend body can deliver
MaxPolls == 2        \* the poll counter saturates here
MaxTail == 1         \* path segments of an inbound request after /api/v1/
NumConc == 2         \* handlers that run at the same time in ConcSpec

\* ---- program constants ----
StatusOK == 200
StatusInternalServerError == 500
StatusServiceUnavailable == 503

Reqs == 1..NumReq
Handlers == 1..NumConc
\* What the monitor's os.Stat / net.Dial observe of the socket path:
\*   "absent"    os.Stat returns an error
\*   "file"      the path exists and Mode()&ModeSocket = 0
\*   "socket"    the path is a socket, net.Dial fails
\*   "listening" the path is a socket, net.Dial succeeds
BackendStates == {"absent", "file", "socket", "listening"}
\* Status codes the backend may answer with.
RespCodes == {200, 404}
\* The responses the backend may give: status code and header multi-map.
Responses ==
    { [code |-> 200, header |-> [k \in {"Content-Type"} |-> <<"text/event-stream">>]],
      [code |-> 404, header |-> [k \in {"Content-Type", "Set-Cookie"} |->
                                   IF k = "Set-Cookie" THEN <<"b=2", "a=1">>
                                   ELSE <<"text/plain">>]] }
\* The i-th chunk of the body of the backend's response to request r.
Chunk(r, i) == <<r, i>>
\* Error results of response.Body.Read: nil, io.EOF, any other error.
ReadErrs == {"nil", "EOF", "err"}

\* ---- inbound requests ----
\* A header multi-map: a function from its keys to the sequence of values.
EmptyHeader == [k \in {} |-> <<>>]
Headers ==
    { EmptyHeader,
      [k \in {"X-Test"} |-> <<"a", "b">>],
      [k \in {"X-Test", "Accept"} |-> IF k = "Accept" THEN <<"*/*">> ELSE <<"b", "a">>] }

\* Segments of r.URL.Path, which net/http has percent-decoded once: "%41"
\* and "%zz" are these three characters (sent as %2541 and %25zz).
Segs == {"x", "%41", "%zz", ".."}
Methods == {"GET", "POST", "CONNECT"}

RECURSIVE SeqsUpTo(_, _)
SeqsUpTo(S, n) ==
    IF n = 0 THEN {<<>>}
    ELSE LET shorter == SeqsUpTo(S, n - 1)
         IN shorter \cup {Append(q, x) : q \in shorter, x \in S}

\* The requests net/http's ServeMux hands to the handler of "/api/v1/": the
\* path starts with /api/v1/, and only a CONNECT request keeps a path that
\* is not clean (the mux redirects the others).
Framings ==
    {[te |-> <<>>, clen |-> 0], [te |-> <<>>, clen |-> 5],
     [te |-> <<"chunked">>, clen |-> -1]}

\* The tails a request of method m can have.
Tails(m) ==
    {u \in SeqsUpTo(Segs, MaxTail) : m # "CONNECT" => \A i \in 1..Len(u) : u[i] # ".."}

Inbound ==
    UNION { { [method |-> m, path |-> <<"api", "v1">> \o t, proto |-> pr, te |-> f.te,
               clen |-> f.clen, header |-> [id |-> "r.Header", map |-> h]] :
                t \in Tails(m), pr \in {"HTTP/1.0", "HTTP/1.1"}, f \in Framings,
                h \in Headers } : m \in Methods }

\* The request of the runs that do not vary the request.
PlainInbound ==
    [method |-> "GET", path |-> <<"api", "v1", "x">>, proto |-> "HTTP/1.1",
     te |-> <<>>, clen |-> 0, header |-> [id |-> "r.Header", map |-> EmptyHeader]]

\* No request: the zero value of the url and of the outbound request.
NoURL == [host |-> "", path |-> <<>>]
NoRequest ==
    [method |-> "", url |-> NoURL, proto |-> "", te |-> <<>>, clen |-> 0,
     header |-> [id |-> "nil", map |-> EmptyHeader]]

VARIABLES
    backend,      \* state of *wolfSocketPath as the environment has it
    ready,        \* var ready atomic.Bool
    proc,         \* "running", or how klog.Fatal ended the process
    srv,          \* "starting" until ListenAndServeTLS is serving
    mpc,          \* monitor goroutine: "stat", "dial", "start", "store", "sleep", "done"
    conn,         \* conn, err of the monitor's net.Dial in this iteration:
                  \* "none", "open", "err", and "closed" after the deferred Close
    info,         \* what the monitor's last os.Stat saw ("none" before the first)
    polls,        \* iterations of the monitor loop started (saturating)
    readyStores,  \* calls of ready.Store(true)
    agentRuns,    \* go agentController.Run(appContext) statements executed
    upSleeps,     \* poll sleeps ended since the backend last began listening
    probe,        \* the last answer of /readyz or /livez
    req           \* one record per /api/v1/ request

vars == <<backend, ready, proc, srv, mpc, conn, info, polls, readyStores,
          agentRuns, upSleeps, probe, req>>

monitorVars == <<mpc, conn, info, polls, readyStores, agentRuns>>

\* A request the server has not yet received.
NewReq ==
    [pc |-> "idle",       \* position of the handler
     inb |-> PlainInbound, \* r, the inbound request
     url |-> NoURL,       \* the url of main.go:116, as http.NewRequest parses it
     out |-> NoRequest,   \* request, the outbound request
     saw |-> FALSE,       \* the value ready.Load() returned (valid after "gate")
     status |-> 0,        \* status code written to the client, 0 = none
     statusWrites |-> 0,  \* calls of w.WriteHeader
     hdr |-> "none",      \* client headers: "none", "copied" (backend's), "error"
     whdr |-> <<>>,       \* w.Header(), the header multi-map of the client response
     rhdr |-> <<>>,       \* response.Header of the backend response
     errbody |-> <<>>,    \* what http.Error has printed as the body
     body |-> <<>>,       \* backend chunks w.Write has accepted, in order
     unflushed |-> 0,     \* chunks written and not yet flushed
     buf |-> <<>>,        \* buf[:n] of the last Read, until it is written
     rerr |-> "nil",      \* err of the last Read
     built |-> FALSE,     \* outbound request constructed
     calls |-> 0,         \* client.Do calls made
     resp |-> 0,          \* status code of the backend response, 0 = none
     sent |-> <<>>,       \* body chunks read from the backend so far
     closed |-> FALSE,    \* response.Body.Close() has run
     cancelled |-> FALSE, \* r.Context() is done (the client went away or timed out)
     dial |-> "none",     \* the transport's DialContext call for this request:
                          \* "none", "dialing", "connected", "failed"
     wfail |-> FALSE]     \* w.Write returned an error

NoProbe == [path |-> "none", saw |-> FALSE, status |-> 0]

Init ==
    /\ backend \in BackendStates
    /\ ready = FALSE
    /\ proc = "running"
    /\ srv = "starting"
    /\ mpc = "stat"
    /\ conn = "none"
    /\ info = "none"
    /\ polls = 0
    /\ readyStores = 0
    /\ agentRuns = 0
    /\ upSleeps = 0
    /\ probe = NoProbe
    /\ req = [r \in Reqs |-> NewReq]

\* ---------------------------------------------------------------------
\* Environment: the backend creates, replaces or removes its socket path
\* and starts or stops accepting connections, at any time.
EnvChange ==
    /\ \E b \in BackendStates \ {backend} : backend' = b
    /\ upSleeps' = 0
    /\ UNCHANGED <<ready, proc, srv, monitorVars, probe, req>>

\* ---------------------------------------------------------------------
\* Monitor goroutine, main.go:48-92.

Min(a, b) == IF a < b THEN a ELSE b

\* Variant: whatever is not a socket is fatal, an absent path too.
StatBranchStrict(b) ==
    IF b \in {"socket", "listening"} THEN "dial" ELSE "fatal"

\* Variant: a path of the wrong kind is logged and polled again.
StatBranchRetry(b) ==
    IF b \in {"socket", "listening"} THEN "dial" ELSE "wait"

\* main.go:51 and :84: which branch of the if/else-if/else one os.Stat
\* result selects.
StatBranch(b) ==
    IF b \in {"socket", "listening"} THEN "dial"
    ELSE IF b = "file" THEN "fatal"
    ELSE "wait"

\* main.go:51, 84-90: os.Stat and the branch taken on its result.  The
\* wrong-kind branch is klog.Fatal, which exits the process.
MonitorStat ==
    /\ proc = "running"
    /\ mpc = "stat"
    /\ polls' = Min(polls + 1, MaxPolls)
    /\ info' = (IF backend = "listening" THEN "socket" ELSE backend)
    /\ conn' = "none"
    /\ CASE StatBranch(backend) = "dial" -> mpc' = "dial" /\ proc' = proc
         [] StatBranch(backend) = "fatal" -> mpc' = mpc /\ proc' = "fatal_notsocket"
         [] OTHER -> mpc' = "sleep" /\ proc' = proc
    /\ UNCHANGED <<backend, ready, srv, readyStores, agentRuns, upSleeps, probe, req>>

\* Variant: the connection attempt is not checked.
DialOKUnchecked(b) == TRUE

\* Variant: the test of the dial error is inverted.
DialOKInverted(b) == b # "listening"

\* main.go:53: err == nil of net.Dial("unix", *wolfSocketPath).
DialOK(b) == b = "listening"

\* main.go:52-53, 83: net.Dial; on success go on to start the agent
\* controller, on failure warn and go to the sleep.
MonitorDial ==
    /\ proc = "running"
    /\ mpc = "dial"
    /\ IF DialOK(backend)
       THEN conn' = "open" /\ mpc' = "start"
       ELSE conn' = "err" /\ mpc' = "sleep"
    /\ UNCHANGED <<backend, ready, proc, srv, info, polls, readyStores, agentRuns,
                   upSleeps, probe, req>>

\* main.go:54-75: build the client and the agent controller and start
\* go agentController.Run(appContext).
MonitorStartAgent ==
    /\ proc = "running"
    /\ mpc = "start"
    /\ agentRuns' = agentRuns + 1
    /\ mpc' = "store"
    /\ UNCHANGED <<backend, ready, proc, srv, conn, info, polls, readyStores,
                   upSleeps, probe, req>>

\* Variant: the goroutine does not return after the store and polls on.
MonitorStoreNoReturn ==
    /\ proc = "running"
    /\ mpc = "store"
    /\ readyStores' = readyStores + 1
    /\ ready' = TRUE
    /\ mpc' = "sleep"
    /\ conn' = "closed"
    /\ UNCHANGED <<backend, proc, srv, info, polls, agentRuns, upSleeps, probe, req>>

\* Variant: the loop goes on to its next iteration after the store.
MonitorStoreRearm ==
    /\ proc = "running"
    /\ mpc = "store"
    /\ readyStores' = Min(readyStores + 1, 2)
    /\ ready' = TRUE
    /\ mpc' = "stat"
    /\ conn' = "closed"
    /\ UNCHANGED <<backend, proc, srv, info, polls, agentRuns, upSleeps, probe, req>>

\* main.go:77-81: ready.Store(true) and return from the goroutine, which
\* runs the deferred conn.Close().
MonitorStore ==
    /\ proc = "running"
    /\ mpc = "store"
    /\ readyStores' = readyStores + 1
    /\ ready' = TRUE
    /\ mpc' = "done"
    /\ conn' = "closed"
    /\ UNCHANGED <<backend, proc, srv, info, polls, agentRuns, upSleeps, probe, req>>

\* main.go:90: <-time.After(200 * time.Millisecond), then the next iteration.
MonitorWake ==
    /\ proc = "running"
    /\ mpc = "sleep"
    /\ mpc' = "stat"
    /\ upSleeps' = (IF backend = "listening" THEN Min(upSleeps + 1, 2) ELSE 0)
    /\ UNCHANGED <<backend, ready, proc, srv, conn, info, polls, readyStores,
                   agentRuns, probe, req>>

\* ---------------------------------------------------------------------
\* main.go:183-195: the server starts serving, or ListenAndServeTLS
\* returns an error and klog.Fatal exits the process.
ServerListen ==
    /\ proc = "running"
    /\ srv = "starting"
    /\ srv' = "listening"
    /\ UNCHANGED <<backend, ready, proc, monitorVars, upSleeps, probe, req>>

ServerListenFail ==
    /\ proc = "running"
    /\ srv = "starting"
    /\ proc' = "fatal_listen"
    /\ UNCHANGED <<backend, ready, srv, monitorVars, upSleeps, probe, req>>

Serving == proc = "running" /\ srv = "listening"

\* ---------------------------------------------------------------------
\* Health handlers, main.go:96-105.

\* Variant: /readyz answers like /livez.
ReadyzStatusAlways(r) == StatusOK

\* main.go:97-101
ReadyzStatus(r) == IF r THEN StatusOK ELSE StatusServiceUnavailable

Readyz ==
    /\ Serving
    /\ probe' = [path |-> "readyz", saw |-> ready, status |-> ReadyzStatus(ready)]
    /\ UNCHANGED <<backend, ready, proc, srv, monitorVars, upSleeps, req>>

\* main.go:103-105
Livez ==
    /\ Serving
    /\ probe' = [path |-> "livez", saw |-> FALSE, status |-> StatusOK]
    /\ UNCHANGED <<backend, ready, proc, srv, monitorVars, upSleeps, req>>

\* ---------------------------------------------------------------------
\* Handler of /api/v1/, main.go:106-180.

\* Every step of a handler leaves the rest of the program alone.
HandlerFrame == UNCHANGED <<backend, ready, proc, srv, monitorVars, upSleeps, probe>>

\* The handler function returns.  A deferred response.Body.Close()
\* (main.go:143, registered once client.Do has returned a response) runs,
\* and the server ends the response, which sends whatever is still buffered.
Return(q) ==
    [q EXCEPT !.pc = "done", !.unflushed = 0, !.closed = (q.resp # 0)]

\* http.Error(w, msg, code): replaces the content headers, writes the
\* status code, then writes msg and a newline as the body.
HttpError(q, msg, code) ==
    [q EXCEPT !.hdr = "error", !.status = code, !.statusWrites = @ + 1,
              !.whdr = [k \in (DOMAIN q.whdr \ {"Content-Length"})
                               \cup {"Content-Type", "X-Content-Type-Options"} |->
                          IF k = "Content-Type" THEN <<"text/plain; charset=utf-8">>
                          ELSE IF k = "X-Content-Type-Options" THEN <<"nosniff">>
                          ELSE q.whdr[k]], !.errbody = q.errbody \o <<msg, "\n">>,
              !.unflushed = q.unflushed + 1]

\* The server hands a request on /api/v1/ to the handler (main.go:106-107).
Accept(r) ==
    /\ Serving
    /\ req[r].pc = "idle"
    /\ req' = [req EXCEPT ![r].pc = "gate"]
    /\ HandlerFrame

\* Variant: the readiness gate lets every request through.
GateBranchOpen(v) == "join"

\* main.go:108: where the handler goes on the value ready.Load() returned.
GateBranch(v) == IF v THEN "join" ELSE "reject"

\* main.go:108: ready.Load()
Gate(r) ==
    /\ Serving
    /\ req[r].pc = "gate"
    /\ req' = [req EXCEPT ![r].saw = ready, ![r].pc = GateBranch(ready)]
    /\ HandlerFrame

\* main.go:109-110: w.WriteHeader(http.StatusServiceUnavailable); return
Reject(r) ==
    /\ Serving
    /\ req[r].pc = "reject"
    /\ req' = [req EXCEPT ![r] = Return([@ EXCEPT !.status = StatusServiceUnavailable,
                                                  !.statusWrites = @ + 1])]
    /\ HandlerFrame

\* path.Clean on a rooted list of segments, as path.Join applies it: empty
\* and "." segments go, ".." removes the segment before it.
RECURSIVE Clean(_, _)
Clean(done, rest) ==
    IF rest = <<>> THEN done
    ELSE IF Head(rest) \in {"", "."} THEN Clean(done, Tail(rest))
    ELSE IF Head(rest) = ".."
         THEN Clean(IF done = <<>> THEN done ELSE SubSeq(done, 1, Len(done) - 1),
                    Tail(rest))
    ELSE Clean(Append(done, Head(rest)), Tail(rest))

\* net/url's unescape of one segment: %41 is the escape of "A", %zz is an
\* invalid escape.
ValidEscapes(seg) == seg # "%zz"
Unescape(seg) == IF seg = "%41" THEN "A" ELSE seg

\* main.go:116: url.JoinPath("http://", "wolf.sock", r.URL.Path), read back
\* by the url.Parse inside http.NewRequest.  JoinPath joins and cleans the
\* elements, takes the result as an ESCAPED path (URL.setPath, which
\* unescapes it; on an invalid escape the path of "http://" stays empty and
\* the error is dropped), and prints "http://" followed by that path; so the
\* first segment is parsed as the host and the rest as the path.
JoinPath(p) ==
    LET joined == Clean(<<>>, <<"wolf.sock">> \o p)
        path == IF \A i \in 1..Len(joined) : ValidEscapes(joined[i])
                THEN [i \in 1..Len(joined) |-> Unescape(joined[i])]
                ELSE <<>>
    IN IF path = <<>> THEN NoURL ELSE [host |-> Head(path), path |-> Tail(path)]

\* main.go:116-121: url.JoinPath; on an error answer with http.Error and return.
JoinURL(r) ==
    /\ Serving
    /\ req[r].pc = "join"
    /\ \E ok \in BOOLEAN :
         req' = [req EXCEPT ![r] =
                   IF ok THEN [@ EXCEPT !.url = JoinPath(req[r].inb.path), !.pc = "newreq"]
                   ELSE Return(HttpError(@, "Failed to join URL: err",
                                         StatusInternalServerError))]
    /\ HandlerFrame

\* main.go:133: r.Header.Clone(), a new map with a copy of every value list.
Clone(h) == [id |-> "clone", map |-> [k \in DOMAIN h.map |-> h.map[k]]]

\* main.go:122-133: the outbound request: http.NewRequest(r.Method, url,
\* r.Body), then Proto, TransferEncoding and ContentLength are assigned from
\* r and Header is set to a clone of r.Header.
Outbound(in, u) ==
    [method |-> in.method, url |-> u, proto |-> in.proto, te |-> in.te,
     clen |-> in.clen, header |-> Clone(in.header)]

\* main.go:122-133: http.NewRequest, then the fields of the result are
\* assigned BEFORE err is inspected (lines 123-127).  When NewRequest fails
\* the result is nil and line 123 dereferences it: the handler panics, the
\* lines 128-132 are never reached, and net/http recovers the panic by
\* dropping the connection without writing a response.
NewRequest(r) ==
    /\ Serving
    /\ req[r].pc = "newreq"
    /\ \E ok \in BOOLEAN :
         req' = [req EXCEPT ![r] =
                   IF ok THEN [@ EXCEPT !.built = TRUE, !.out = Outbound(req[r].inb, req[r].url),
                                        !.pc = "do"]
                   ELSE [@ EXCEPT !.pc = "panicked"]]
    /\ HandlerFrame

\* Variant: a failed backend call is tried again.
DoFailedRetry(q) == [q EXCEPT !.pc = "do"]

\* main.go:138-142: what the handler does when client.Do returned an error.
DoFailed(q) ==
    Return(HttpError(q, "err.Error()", StatusInternalServerError))

\* main.go:137: client.Do(request.WithContext(r.Context())) is called.
\* net/http's client returns an error at once when the request's URL has no
\* host or its context is already done; otherwise the transport asks
\* DialContext for a connection and the handler waits.
Do(r) ==
    /\ Serving
    /\ req[r].pc = "do"
    /\ req' = [req EXCEPT ![r] =
                 IF @.cancelled \/ @.out.url.host = ""
                 THEN DoFailed([@ EXCEPT !.calls = @ + 1])
                 ELSE [@ EXCEPT !.calls = @ + 1, !.dial = "dialing", !.pc = "wait"]]
    /\ HandlerFrame

\* main.go:201-203 (UnixHTTPClient): the DialContext of the transport is
\* net.Dial("unix", sockAddr); its ctx parameter is not used, so the dial
\* runs to its end whether or not the request's context is done.  The
\* transport runs it in a goroutine of its own.
DialContext(r) ==
    /\ Serving
    /\ req[r].dial = "dialing"
    /\ req' = [req EXCEPT ![r].dial =
                 IF backend = "listening" THEN "connected" ELSE "failed"]
    /\ HandlerFrame

\* main.go:137-143: client.Do returns.  The transport stops waiting as
\* soon as the request's context is done, also while the dial is still
\* running; it returns an error when the dial failed; on a connection the
\* exchange gives a response or fails.
DoReturn(r) ==
    /\ Serving
    /\ req[r].pc = "wait"
    /\ \/ /\ req[r].cancelled \/ req[r].dial \in {"failed", "connected"}
          /\ req' = [req EXCEPT ![r] = DoFailed(@)]
       \/ /\ ~req[r].cancelled
          /\ req[r].dial = "connected"
          /\ \E rs \in Responses :
               req' = [req EXCEPT ![r].resp = rs.code, ![r].rhdr = rs.header,
                                  ![r].pc = "headers"]
    /\ HandlerFrame

\* r.Context() becomes done while the handler runs: the client closed the
\* connection or the request timed out.
Cancel(r) ==
    /\ Serving
    /\ req[r].pc \notin {"idle", "done", "panicked"}
    /\ ~req[r].cancelled
    /\ req' = [req EXCEPT ![r].cancelled = TRUE]
    /\ HandlerFrame

\* Variant: the backend headers are not copied.
CopyHeadersSkipped(r) ==
    /\ Serving
    /\ req[r].pc = "headers"
    /\ req' = [req EXCEPT ![r].pc = "status"]
    /\ HandlerFrame

\* Variant: Set in place of Add, which keeps the last value of a key only.
SetAll(w, h) ==
    [k \in DOMAIN w \cup DOMAIN h |->
       IF k \in DOMAIN h THEN <<h[k][Len(h[k])]>> ELSE w[k]]

\* main.go:146-150: w.Header().Add(key, value) for every value of every key
\* of h, the values of a key in their order.
AddAll(w, h) ==
    [k \in DOMAIN w \cup DOMAIN h |->
       (IF k \in DOMAIN w THEN w[k] ELSE <<>>) \o (IF k \in DOMAIN h THEN h[k] ELSE <<>>)]

\* main.go:146-150: every value of every backend header is added to w.Header().
CopyHeaders(r) ==
    /\ Serving
    /\ req[r].pc = "headers"
    /\ req' = [req EXCEPT ![r].hdr = "copied", ![r].whdr = AddAll(@, req[r].rhdr),
                          ![r].pc = "status"]
    /\ HandlerFrame

\* main.go:151-156: w.WriteHeader(response.StatusCode).  The ResponseWriter
\* of net/http's server always implements http.Flusher, so the branch of
\* line 153 is not taken.
WriteHeader(r) ==
    /\ Serving
    /\ req[r].pc = "status"
    /\ req' = [req EXCEPT ![r].status = req[r].resp, ![r].statusWrites = @ + 1,
                          ![r].pc = "read"]
    /\ HandlerFrame

\* Variant: a read error other than io.EOF is reported to the client.
AfterChunkReports(q) ==
    IF q.rerr = "nil" THEN [q EXCEPT !.pc = "read"]
    ELSE IF q.rerr = "err"
         THEN Return(HttpError(q, "Error reading from backend", StatusInternalServerError))
    ELSE Return(q)

\* main.go:171-177: the check of the Read error at the end of an iteration.
AfterChunk(q) ==
    IF q.rerr = "nil" THEN [q EXCEPT !.pc = "read"] ELSE Return(q)

\* Variant: one buffer for all handlers.
BufShared(r) == 1

\* main.go:160: buf := make([]byte, 32*1024) is a local of the handler
\* call, so every call relays through a buffer of its own.
BufOf(r) == r

\* main.go:162-163, 171-177: response.Body.Read(buf).  The backend produces
\* the body while it is relayed: a read returns the next chunk of the body
\* (Chunk numbers them in the order the backend produces them), a chunk
\* together with an error, or no bytes and an error.  (A read of no bytes and no
\* error changes nothing and is a stuttering step.)  The body belongs to a
\* request made with r.Context(): once that is done a read returns its error.
Read(r) ==
    /\ Serving
    /\ req[r].pc = "read"
    /\ \/ /\ Len(req[r].sent) < MaxChunks
          /\ ~req[r].cancelled
          /\ \E e \in ReadErrs :
               req' = [req EXCEPT ![BufOf(r)].buf = <<Chunk(r, Len(req[r].sent) + 1)>>,
                                  ![r].rerr = e,
                                  ![r].sent = Append(@, Chunk(r, Len(@) + 1)),
                                  ![r].pc = "write"]
       \/ \E e \in ReadErrs \ {"nil"} :
            /\ req[r].cancelled => e = "err"
            /\ req' = [req EXCEPT ![r] = AfterChunk([@ EXCEPT !.rerr = e])]
    /\ HandlerFrame

\* Variant: the write error is ignored and the loop goes on.
WriteFailedIgnored(q) == [q EXCEPT !.wfail = TRUE, !.buf = <<>>, !.pc = "flush"]

\* main.go:165-168: what the handler does when w.Write returned an error.
WriteFailed(q) == Return([q EXCEPT !.wfail = TRUE])

\* main.go:164-168: w.Write(buf[:n])
Write(r) ==
    /\ Serving
    /\ req[r].pc = "write"
    /\ \/ req' = [req EXCEPT ![r] = WriteFailed(@)]
       \/ req' = [req EXCEPT ![r].body = @ \o req[BufOf(r)].buf,
                             ![r].unflushed = @ + 1,
                             ![BufOf(r)].buf = <<>>, ![r].pc = "flush"]
    /\ HandlerFrame

\* Variant: the chunk is left in the server's write buffer.
FlushedNot(q) == q

\* main.go:169: flusher.Flush()
Flushed(q) == [q EXCEPT !.unflushed = 0]

\* main.go:169-177: flush, then the check of the Read error.
Flush(r) ==
    /\ Serving
    /\ req[r].pc = "flush"
    /\ req' = [req EXCEPT ![r] = AfterChunk(Flushed(@))]
    /\ HandlerFrame

Handler(r) ==
    \/ Accept(r) \/ Gate(r) \/ Reject(r) \/ JoinURL(r) \/ NewRequest(r)
    \/ Do(r) \/ DialContext(r) \/ DoReturn(r) \/ CopyHeaders(r) \/ WriteHeader(r) \/ Read(r) \/ Write(r)
    \/ Flush(r)

Next ==
    \/ EnvChange
    \/ MonitorStat \/ MonitorDial \/ MonitorStartAgent \/ MonitorStore \/ MonitorWake
    \/ ServerListen \/ ServerListenFail
    \/ Readyz \/ Livez
    \/ \E r \in Reqs : Handler(r)

Spec == Init /\ [][Next]_vars

\* The same program with clients that go away: cancellation only makes
\* client.Do, Read and Write fail, which Spec lets them do at any time.
CancelNext == Next \/ \E r \in Reqs : Cancel(r)

CancelSpec == Init /\ [][CancelNext]_vars

\* The construction of the outbound request over every inbound request of
\* Inbound, from the state in which the monitor has stored ready and the
\* server is serving.
FwdInit ==
    /\ backend = "listening"
    /\ ready = TRUE
    /\ proc = "running"
    /\ srv = "listening"
    /\ mpc = "done"
    /\ conn = "closed"
    /\ info = "socket"
    /\ polls = 1
    /\ readyStores = 1
    /\ agentRuns = 1
    /\ upSleeps = 0
    /\ probe = NoProbe
    /\ req \in [Reqs -> {[NewReq EXCEPT !.inb = i] : i \in Inbound}]

FwdNext == \E r \in Reqs : Accept(r) \/ Gate(r) \/ JoinURL(r) \/ NewRequest(r)

FwdSpec == FwdInit /\ [][FwdNext]_vars

\* Several handlers at once (net/http runs each request's handler in a
\* goroutine of its own), from the state in which the monitor has stored
\* ready, the server is serving and the backend is listening.
ConcInit ==
    /\ backend = "listening"
    /\ ready = TRUE
    /\ proc = "running"
    /\ srv = "listening"
    /\ mpc = "done"
    /\ conn = "closed"
    /\ info = "socket"
    /\ polls = 1
    /\ readyStores = 1
    /\ agentRuns = 1
    /\ upSleeps = 0
    /\ probe = NoProbe
    /\ req = [r \in Handlers |-> NewReq]

ConcNext ==
    \E r \in Handlers :
        \/ Accept(r) \/ Gate(r) \/ JoinURL(r) \/ NewRequest(r)
        \/ Do(r) \/ DialContext(r) \/ DoReturn(r) \/ CopyHeaders(r) \/ WriteHeader(r)
        \/ Read(r) \/ Write(r) \/ Flush(r)

ConcSpec == ConcInit /\ [][ConcNext]_vars

\* The Go scheduler runs the monitor goroutine and its timer fires.
FairSpec ==
    /\ Spec
    /\ WF_vars(MonitorStat) /\ WF_vars(MonitorDial) /\ WF_vars(MonitorStartAgent)
    /\ WF_vars(MonitorStore) /\ WF_vars(MonitorWake)

TypeOK ==
    /\ backend \in BackendStates
    /\ ready \in BOOLEAN
    /\ proc \in {"running", "fatal_notsocket", "fatal_listen"}
    /\ srv \in {"starting", "listening"}
    /\ mpc \in {"stat", "dial", "start", "store", "sleep", "done"}
    /\ conn \in {"none", "open", "err", "closed"}
    /\ info \in {"none", "absent", "file", "socket"}
    /\ polls \in 0..MaxPolls
    /\ readyStores \in Nat /\ agentRuns \in Nat /\ upSleeps \in Nat
    /\ probe.path \in {"none", "readyz", "livez"}
    /\ \A r \in Reqs :
         /\ req[r].pc \in {"idle", "gate", "reject", "join", "newreq", "do", "wait", "headers",
                           "status", "read", "write", "flush", "done", "panicked"}
         /\ req[r].rerr \in ReadErrs
         /\ req[r].resp \in RespCodes \cup {0}

\* =====================================================================
\* Properties

\* C1: a request on /api/v1/ whose handler read ready as false is answered
\* 503 and never builds an outbound request nor calls the backend,
\* whatever the monitor does in between.
C1_NotReadyRejected ==
    \A r \in Reqs :
        (req[r].pc \notin {"idle", "gate"} /\ ~req[r].saw) =>
            /\ req[r].pc \in {"reject", "done"}
            /\ ~req[r].built /\ req[r].calls = 0 /\ req[r].resp = 0
            /\ req[r].pc = "done" =>
                 (req[r].status = 503 /\ req[r].body = <<>> /\ req[r].errbody = <<>>)

\* A request was answered 503 although ready had become true after its load.
C1_Witness ==
    \E r \in Reqs : req[r].pc = "done" /\ ~req[r].saw /\ req[r].status = 503 /\ ready

\* C2: ready starts false, is stored at most once, and never goes from
\* true back to false.
C2_ReadyMonotonic ==
    /\ ready = FALSE
    /\ [][ /\ ready => ready'
           /\ readyStores' <= 1
           /\ (ready' # ready) => (readyStores = 0 /\ readyStores' = 1) ]_vars

\* Ready was stored after several poll iterations.
C2_Witness == ready /\ readyStores = 1 /\ polls >= 2

\* C3: every chunk read from the backend is written and flushed before the
\* next read: at most one chunk is held at any time, and none is held while
\* a read is pending.
C3_FlushPerChunk ==
    \A r \in Reqs :
        /\ Len(req[r].buf) + req[r].unflushed <= 1
        /\ req[r].pc = "read" =>
             (req[r].buf = <<>> /\ req[r].unflushed = 0 /\ req[r].body = req[r].sent)

\* A read is pending after two chunks have been relayed.
C3_Witness ==
    \E r \in Reqs : req[r].pc = "read" /\ Len(req[r].body) >= 2

\* C4: no body byte is written to the client before the backend headers
\* are copied and the status code is written.
C4_HeadBeforeBody ==
    \A r \in Reqs :
        /\ (req[r].body # <<>> \/ req[r].pc \in {"read", "write", "flush"}) =>
             (req[r].hdr = "copied" /\ req[r].resp # 0 /\ req[r].status = req[r].resp)
        /\ req[r].errbody # <<>> => (req[r].hdr = "error" /\ req[r].status # 0)

\* A body chunk of a 404 response has been written.
C4_Witness ==
    \E r \in Reqs : req[r].body # <<>> /\ req[r].hdr = "copied" /\ req[r].status = 404

\* C5: a poll that finds the path to be no socket ends the process: ready
\* is never stored, no request was or will be forwarded, and neither the
\* monitor nor any handler takes another step.
C5_WrongKindFatal ==
    [][ /\ info' = "file" => proc' = "fatal_notsocket"
        /\ proc' = "fatal_notsocket" =>
             /\ ~ready' /\ readyStores' = 0 /\ agentRuns' = 0
             /\ \A r \in Reqs : ~req'[r].built /\ req'[r].calls = 0 /\ req'[r].resp = 0
        /\ proc = "fatal_notsocket" =>
             UNCHANGED <<ready, proc, srv, monitorVars, probe, req>> ]_vars

\* The process ended on a later poll iteration, after a request was rejected.
C5_Witness ==
    /\ proc = "fatal_notsocket" /\ polls >= 2
    /\ \E r \in Reqs : req[r].status = 503

\* C6: a request that passed the gate and whose outbound request could not
\* be constructed is answered 502 and makes no backend call.
C6_ConstructionFailure502 ==
    \A r \in Reqs :
        (req[r].saw /\ req[r].calls = 0 /\ req[r].pc \in {"done", "panicked"}) =>
            req[r].status = 502

\* C7: /livez answers 200; /readyz answers 200 when the value of ready it
\* loads is true and 503 otherwise; a health answer changes neither ready,
\* nor any request, nor the monitor.
C7_HealthSurface ==
    [][ probe' # probe =>
          /\ probe'.path = "livez" => probe'.status = 200
          /\ probe'.path = "readyz" =>
               (probe'.saw = ready /\ probe'.status = IF ready THEN 200 ELSE 503)
          /\ probe'.path \in {"livez", "readyz"}
          /\ UNCHANGED <<backend, ready, proc, srv, monitorVars, req>> ]_vars

\* /readyz answered 200 after the monitor had stored ready.
C7_Witness == probe.path = "readyz" /\ probe.status = 200 /\ probe.saw

\* While the backend has been listening without a break and ready is still
\* false, at most one poll sleep has ended, and after it the monitor is in
\* the iteration that stores ready.
C8Bound ==
    (proc = "running" /\ backend = "listening" /\ ~ready) =>
        /\ upSleeps <= 1
        /\ upSleeps = 1 => mpc \in {"stat", "dial", "start", "store"}

\* C8: once the backend listens and stays so, the monitor stores ready in
\* its next iteration, after at most one poll sleep; with a fair monitor
\* ready is eventually true.
C8_ReadinessReached ==
    /\ []C8Bound
    /\ <>[](backend = "listening" /\ proc = "running") => <>ready

\* Ready was stored in the iteration after the one sleep that ended while
\* the backend was listening.
C8_Witness == ready /\ upSleeps = 1 /\ backend = "listening"

\* C9: a handler calls the backend at most once, and when that call fails
\* the client gets 500 with the error text as the body.
C9_BackendCallFailure ==
    \A r \in Reqs :
        /\ req[r].calls <= 1
        /\ (req[r].calls = 1 /\ req[r].resp = 0 /\ req[r].pc # "wait") =>
             /\ req[r].pc = "done"
             /\ req[r].status = 500
             /\ req[r].errbody = <<"err.Error()", "\n">>
             /\ req[r].body = <<>>

\* A backend call failed.
C9_Witness ==
    \E r \in Reqs : req[r].calls = 1 /\ req[r].resp = 0 /\ req[r].status = 500

\* C10: a failed client write ends the handler in that step with the
\* backend body closed, and the request sees no read, write or flush after.
C10_WriteFailureStops ==
    [][ \A r \in Reqs :
          /\ req'[r].wfail => (req'[r].pc = "done" /\ req'[r].closed)
          /\ req[r].wfail => req'[r] = req[r] ]_vars

\* A write failed after a chunk had been delivered.
C10_Witness ==
    \E r \in Reqs : req[r].wfail /\ req[r].closed /\ Len(req[r].body) >= 1

\* C11: once the inbound request is cancelled its backend call makes no
\* further progress: no connection to the backend is completed for it, no
\* response is taken and no further chunk is read.
C11_CancelAbortsBackendCall ==
    [][ \A r \in Reqs :
          req[r].cancelled =>
            /\ req'[r].dial = "connected" => req[r].dial = "connected"
            /\ req'[r].resp = req[r].resp
            /\ req'[r].sent = req[r].sent ]_vars

\* C12: the outbound request has the method, path, protocol version,
\* transfer encoding, content length and header multi-map of the inbound
\* one, and its header map is a copy of its own.
C12_RequestFidelity ==
    \A r \in Reqs :
        req[r].built =>
            /\ req[r].out.method = req[r].inb.method
            /\ req[r].out.url.path = req[r].inb.path
            /\ req[r].out.proto = req[r].inb.proto
            /\ req[r].out.te = req[r].inb.te
            /\ req[r].out.clen = req[r].inb.clen
            /\ req[r].out.header.map = req[r].inb.header.map
            /\ req[r].out.header.id # req[r].inb.header.id

\* C13: a proxied response carries the backend's status code and header
\* multi-map; the chunks the client has been sent are, at every point, the
\* first chunks of the backend's body in their order; and when the body has
\* ended with a clean end-of-stream (and no client write failed) they are
\* the whole body.
C13_ResponseFidelity ==
    \A r \in Reqs :
        req[r].resp # 0 =>
            /\ req[r].pc \in {"read", "write", "flush", "done"} =>
                 (req[r].status = req[r].resp /\ req[r].whdr = req[r].rhdr)
            /\ \A i \in 1..Len(req[r].sent) : req[r].sent[i] = Chunk(r, i)
            /\ Len(req[r].body) <= Len(req[r].sent)
            /\ req[r].body = SubSeq(req[r].sent, 1, Len(req[r].body))
            /\ (req[r].pc = "done" /\ req[r].rerr = "EOF" /\ ~req[r].wfail) =>
                 req[r].body = req[r].sent

\* A 404 response with a two-valued header and a body of two chunks has
\* been relayed to its clean end.
C13_Witness ==
    \E r \in Reqs :
        /\ req[r].pc = "done" /\ req[r].rerr = "EOF" /\ req[r].status = 404
        /\ Len(req[r].body) = 2 /\ req[r].body = req[r].sent
        /\ req[r].whdr["Set-Cookie"] = <<"b=2", "a=1">>

\* C14: the agent controller runs only when ready is true.
C14_AgentAfterReady == agentRuns > 0 => ready

\* C15: ready is true only after an iteration that found a socket and whose
\* connection attempt succeeded; an iteration that finds the path absent or
\* of the wrong kind, or whose dial fails, does not set it.
C15_NoFalsePositive ==
    [][ /\ ready' => (info' = "socket" /\ conn' \in {"open", "closed"})
        /\ (conn' = "open" /\ conn # "open") =>
             (mpc = "dial" /\ info = "socket" /\ backend = "listening")
        /\ (ready' /\ ~ready) => (mpc = "store" /\ conn = "open")
        /\ (mpc \in {"stat", "dial"} /\ mpc' = "sleep") => (~ready' /\ conn' # "open") ]_vars

\* Ready was stored in a second or later poll iteration.
C15_Witness == ready /\ conn = "closed" /\ info = "socket" /\ polls >= 2

\* C16: the agent controller is started at most once, only in the iteration
\* whose connection attempt succeeded; it has been started once whenever
\* ready is true; and in a run of the process in which ready never becomes
\* true it is never started.
C16_AgentStartedOnce ==
    /\ [][ /\ agentRuns' <= 1
           /\ agentRuns' # agentRuns =>
                (mpc = "start" /\ conn = "open" /\ info = "socket") ]_vars
    /\ [](ready => agentRuns = 1)
    /\ ([](~ready)) => [](agentRuns = 0)

\* C17: an iteration that finds the path absent, or a socket that refuses
\* the connection, leaves ready false, keeps the process running and goes
\* to the sleep; the sleep is followed by the next iteration; only a path
\* of the wrong kind is fatal.
C17_TransientRetried ==
    /\ [][ /\ (proc' = "fatal_notsocket" /\ proc = "running") =>
                (mpc = "stat" /\ backend = "file")
           /\ (mpc = "stat" /\ mpc' # "stat" /\ backend = "absent") =>
                (mpc' = "sleep" /\ ~ready' /\ proc' = "running")
           /\ (mpc = "dial" /\ mpc' # "dial" /\ backend # "listening") =>
                (mpc' = "sleep" /\ ~ready' /\ proc' = "running")
           /\ (mpc = "sleep" /\ mpc' # "sleep") => mpc' = "stat" ]_vars
    /\ (mpc = "sleep" /\ proc = "running") ~> (mpc = "stat" \/ proc # "running")

\* The monitor sleeps after a failed dial in a second or later iteration.
C17_Witness ==
    mpc = "sleep" /\ conn = "err" /\ polls >= 2 /\ ~ready /\ proc = "running"

\* C18: once ready is true the monitor takes no step, ready stays true and
\* the loss of the backend does not end the process; /readyz answers 200,
\* the gate lets every request through, and a request whose dial fails is
\* answered with the backend-call error, never with 503.
C18_BackendLossUndetected ==
    [][ ready =>
          /\ ready' /\ UNCHANGED monitorVars
          /\ proc' \in {proc, "fatal_listen"}
          /\ (probe' # probe /\ probe'.path = "readyz") => probe'.status = 200
          /\ \A r \in Reqs :
               /\ (req[r].pc = "gate" /\ req'[r].pc # "gate") => req'[r].pc = "join"
               /\ (req[r].pc = "wait" /\ req'[r].pc # "wait" /\ req[r].dial = "failed") =>
                    (req'[r].pc = "done" /\ req'[r].status = 500)
               /\ req'[r].saw => req'[r].status # 503 ]_vars

\* After readiness the path became a regular file; a request was still
\* forwarded, its dial failed and it was answered 500, while /readyz
\* answered 200.
C18_Witness ==
    /\ ready /\ backend = "file" /\ proc = "running"
    /\ probe.path = "readyz" /\ probe.status = 200
    /\ \E r \in Reqs : req[r].saw /\ req[r].dial = "failed" /\ req[r].status = 500

\* C19: a body read that fails with an error other than io.EOF ends the
\* relay: nothing more is read; the client has every chunk that was read,
\* the one of the failing read included; the status code stays the
\* backend's, no error body is written, and WriteHeader is called at most
\* once per request.
C19_ReadFailureStops ==
    [][ \A r \in Reqs :
          /\ req'[r].statusWrites <= 1
          /\ (req'[r].rerr = "err" /\ req'[r].pc = "done" /\ ~req'[r].wfail) =>
               /\ req'[r].body = req'[r].sent
               /\ req'[r].status = req'[r].resp
               /\ req'[r].errbody = <<>>
               /\ req'[r].closed
          /\ req[r].rerr = "err" =>
               /\ req'[r].sent = req[r].sent
               /\ req'[r].status = req[r].status
               /\ req'[r].statusWrites = req[r].statusWrites
               /\ req'[r].pc \in {req[r].pc, "flush", "done"}
          /\ (req[r].rerr = "err" /\ req[r].pc = "done") => req'[r] = req[r] ]_vars

\* A read returned a second chunk together with an error, and both chunks
\* reached the client.
C19_Witness ==
    \E r \in Reqs :
        /\ req[r].pc = "done" /\ req[r].rerr = "err" /\ ~req[r].wfail
        /\ Len(req[r].body) = 2 /\ req[r].status = 404

\* C20: while several handlers run at the same time, a step of one handler
\* changes nothing of another handler's request and writes neither ready
\* nor anything of the monitor; and each client is sent the status code,
\* the headers and the body chunks of its own backend response only, the
\* chunks in that response's order.
C20_HandlersIndependent ==
    [][ /\ ready' = ready /\ UNCHANGED monitorVars
        /\ \A r, s \in DOMAIN req : (r # s /\ req'[r] # req[r]) => req'[s] = req[s]
        /\ \A r \in DOMAIN req :
             /\ req'[r].pc \in {"read", "write", "flush", "done"} /\ req'[r].resp # 0 =>
                  (req'[r].status = req'[r].resp /\ req'[r].whdr = req'[r].rhdr)
             /\ \A i \in 1..Len(req'[r].sent) : req'[r].sent[i] = Chunk(r, i)
             /\ \A i \in 1..Len(req'[r].body) : req'[r].body[i] = Chunk(r, i)
             /\ req'[r].pc = "write" => req'[BufOf(r)].buf = <<Chunk(r, Len(req'[r].sent))>>
             /\ Len(req'[r].body) <= Len(req'[r].sent) ]_vars

\* Two handlers are inside their relay loops at the same time, on different
\* responses, one holding a chunk it has read and not yet written.
C20_Witness ==
    \E r, s \in DOMAIN req :
        /\ r # s
        /\ req[r].pc = "flush" /\ Len(req[r].body) = 2 /\ req[r].resp = 404
        /\ req[s].pc = "write" /\ Len(req[s].body) = 1 /\ req[s].resp = 200

====
